---- MODULE Spec2Model ----
(***************************************************************************)
(* Model of src/main.py: the image labeller.  label_and_move_images asks   *)
(* the user, runs get_labels (one label_image_async task per image, joined *)
(* by asyncio.gather inside one aiohttp.ClientSession) and then copies     *)
(* every image into a folder derived from its label.                       *)
(*                                                                         *)
(* One task step of the model is one run of a coroutine between two        *)
(* suspension points (the session.post await and the asyncio.sleep await). *)
(***************************************************************************)
EXTENDS Integers, Sequences, FiniteSets, TLC

\* ------------------------------------------------------------------ bounds

\* Largest number of image files find_images returns.
MaxItems == 2

\* ------------------------------------------------------- program constants

\* label_image_async(..., max_retries=5, initial_delay=1.0)
max_retries == 5
initial_delay == 1

\* Python's None object: the value of a function that falls off its end.
\* It is no str; no label and no error marker equals it.
None == "<None>"

\* Texts the remote model may return as a message's content.
Labels == {"Screenshot_VSCode_Python", "Meme_Cat_Funny"}

\* HTTP statuses the remote endpoint may answer with.
Statuses == {200, 429, 500}

\* The image files are identified by the numbers 1..MaxItems.
Files == 1..MaxItems

\* __main__ calls label_and_move_images with ask_to_proceed = True.
ask_to_proceed == TRUE

\* What the user may type at the prompt.
Answers == {"Y", "n", "yes"}

VARIABLES
    image_files,  \* the list find_images returned
    mainpc,       \* position of label_and_move_images
    session,      \* the aiohttp.ClientSession of get_labels: none, open, closed
    tasks,        \* tasks[k]: the label_image_async task made for image_files[k]
    labels,       \* the list get_labels returned (<<>> before it returns)
    organized,    \* positions the file-organization loop has copied
    uncaught,     \* the exception that ended the program, "none" otherwise
    keep_originals, \* the parameter of label_and_move_images
    proceed,      \* the user's answer to the prompt (None before it is read)
    fs            \* the file system: source images, folders made, files copied

vars == <<image_files, mainpc, session, tasks, labels, organized, uncaught,
          keep_originals, proceed, fs>>

\* ------------------------------------------------------------ find_images

\* The lists find_images may return: every matching path once, in an order
\* the program does not control.  Each length is listed rotated by one, so
\* that the position of a file in the list differs from its number.
FileLists == {[i \in 1..n |-> (i % n) + 1] : n \in 0..MaxItems}

\* -------------------------------------------------- label_image_async

\* The body of a response whose status is not 200 (the code never reads it),
\* and the value of data before response.json() has been read.
NoData == [choices |-> <<>>]

\* The state of one coroutine at its first line; requests, nRetryable, nOther
\* and sleeps record what the task has done so far, and last the outcome
\* of the post on which it ended.
NewTask(image_file) ==
    [pc |-> "created", image_path |-> image_file, attempt |-> 0,
     delay |-> initial_delay, data |-> NoData, result |-> None,
     exc |-> "none", last |-> "none",
     requests |-> 0, nRetryable |-> 0, nOther |-> 0, sleeps |-> <<>>]

\* A loop that runs once too often: range(max_retries + 1).
InRangeInclusive(attempt) == attempt <= max_retries

\* for attempt in range(max_retries)
InRange(attempt) == attempt < max_retries

\* A backoff test that is off by one: attempt < max_retries.
ShouldBackoffOffByOne(attempt) == attempt < max_retries

\* if attempt < max_retries - 1
ShouldBackoff(attempt) == attempt < max_retries - 1

\* A backoff that grows by a constant step: delay += 2.
NextDelayLinear(delay) == delay + 2

\* delay *= 2
NextDelay(delay) == delay * 2

\* One reason for every exhausted item, whatever failed last.
ErrorStatusMaxRetries(status) == "max retries exceeded"

\* f"Error: {response.status}"
ErrorStatus(status) == "Error: " \o ToString(status)

\* f"Error: Server disconnected"
ErrorDisconnected == "Error: Server disconnected"

\* data["choices"][0]["message"]["content"] raises KeyError/IndexError
\* unless the body holds a first choice.
Parseable(body) == Len(body.choices) >= 1

\* Reading the last choice, data["choices"][-1], instead of the first.
ContentLast(body) == body.choices[Len(body.choices)]

\* data["choices"][0]["message"]["content"]
Content(body) == body.choices[1]

\* session.post(...) at the top of a loop iteration: a closed session
\* raises RuntimeError, an open one sends the request.
Post(task, sess) ==
    IF sess = "open"
    THEN [task EXCEPT !.pc = "posting", !.requests = @ + 1]
    ELSE [task EXCEPT !.pc = "raised", !.exc = "RuntimeError"]

\* The end of a loop iteration that neither returned nor raised: the next
\* iteration, or the end of the function (which returns None).
NextIteration(task, sess) ==
    IF InRange(task.attempt + 1)
    THEN Post([task EXCEPT !.attempt = @ + 1], sess)
    ELSE [task EXCEPT !.pc = "returned", !.result = None]

\* The body of the except/elif branches: back off, or return the marker.
BackoffOrReturn(task, marker) ==
    IF ShouldBackoff(task.attempt)
    THEN [task EXCEPT !.pc = "sleeping", !.nRetryable = @ + 1,
                      !.sleeps = Append(@, task.delay)]
    ELSE [task EXCEPT !.pc = "returned", !.nRetryable = @ + 1,
                      !.result = marker]

\* The JSON bodies of a 200 response: the list of returned choices, each
\* reduced to its message's content.  An empty list stands for every body
\* that data["choices"][0]["message"]["content"] cannot be read from; the
\* others hold one choice or two.
Bodies ==
    {[choices |-> c] :
        c \in {<<>>, <<"Screenshot_VSCode_Python">>,
               <<"Meme_Cat_Funny", "Screenshot_VSCode_Python">>}}

\* What the remote end can do to one request.
Responses ==
    {[kind |-> "response", status |-> 200, body |-> b] : b \in Bodies}
    \cup {[kind |-> "response", status |-> s, body |-> NoData] :
            s \in Statuses \ {200}}
    \cup {[kind |-> k, status |-> 0, body |-> NoData] :
            k \in {"ServerDisconnectedError", "ClientError"}}

\* The name of an outcome: the status of a response, or the exception.
OutcomeName(r) == IF r.kind = "response" THEN ToString(r.status) ELSE r.kind

\* Lines 93-111: what one loop iteration does with the outcome of its post.
HandleOutcome(task, r, sess) ==
    IF r.kind = "ServerDisconnectedError"
    THEN BackoffOrReturn(task, ErrorDisconnected)
    ELSE IF r.kind = "ClientError"
    THEN [task EXCEPT !.pc = "raised", !.exc = "ClientError"]
    ELSE IF r.status = 200
    THEN IF Parseable(r.body)
         THEN [task EXCEPT !.pc = "returned", !.data = r.body,
                           !.result = Content(r.body)]
         ELSE [task EXCEPT !.pc = "raised", !.data = r.body,
                           !.exc = "KeyError"]
    ELSE IF r.status = 429
    THEN BackoffOrReturn(task, ErrorStatus(r.status))
    ELSE NextIteration([task EXCEPT !.nOther = @ + 1], sess)

\* After asyncio.sleep: delay *= 2, then the next iteration.
AfterSleep(task, sess) ==
    NextIteration([task EXCEPT !.delay = NextDelay(@)], sess)

\* ------------------------------------------------------------ get_labels

Positions == 1..Len(tasks)

Ended(task) == task.pc \in {"returned", "raised", "cancelled"}

\* A join that lists the results from the last child to the first.
GatherReversed(ts) == [k \in 1..Len(ts) |-> ts[Len(ts) + 1 - k].result]

\* asyncio.gather: the results of the children, in the order of the children.
Gather(ts) == [k \in 1..Len(ts) |-> ts[k].result]

\* ------------------------------------------------ label_and_move_images

\* A str as the sequence of its characters, for the texts a label can be.
Chars(text) ==
    CASE text = "Screenshot_VSCode_Python" ->
           <<"S", "c", "r", "e", "e", "n", "s", "h", "o", "t", "_", "V",
             "S", "C", "o", "d", "e", "_", "P", "y", "t", "h", "o", "n">>
      [] text = "Meme_Cat_Funny" ->
           <<"M", "e", "m", "e", "_", "C", "a", "t", "_", "F", "u", "n",
             "n", "y">>
      [] text = "Error: 429" ->
           <<"E", "r", "r", "o", "r", ":", " ", "4", "2", "9">>
      [] text = "Error: Server disconnected" ->
           <<"E", "r", "r", "o", "r", ":", " ", "S", "e", "r", "v", "e",
             "r", " ", "d", "i", "s", "c", "o", "n", "n", "e", "c", "t",
             "e", "d">>

\* proceed.lower(), on the answers the user may type.
Lower(text) ==
    CASE text = "Y" -> "y"
      [] text = "n" -> "n"
      [] text = "yes" -> "yes"

\* A prompt test that stops the run only on 'n': proceed.lower() == 'n'.
DeclinesOnlyOnNo(answer) == Lower(answer) = "n"

\* if proceed.lower() != 'y': return
Declines(answer) == Lower(answer) # "y"

\* text.split(sep)[0]: the characters before the first sep.
SplitFirst(cs, sep) ==
    LET at == {i \in 1..Len(cs) : cs[i] = sep} IN
    IF at = {} THEN cs
    ELSE SubSeq(cs, 1, (CHOOSE i \in at : \A j \in at : i <= j) - 1)

\* text.split(sep)[-1]: the characters after the last sep.
SplitLast(cs, sep) ==
    LET at == {i \in 1..Len(cs) : cs[i] = sep} IN
    IF at = {} THEN cs
    ELSE SubSeq(cs, (CHOOSE i \in at : \A j \in at : i >= j) + 1, Len(cs))

\* sanitize_label: every invalid character becomes an underscore.
invalid_chars == {"/", ":", "*", "?", "\"", "<", ">", "|"}

sanitize_label(cs) ==
    [i \in 1..Len(cs) |-> IF cs[i] \in invalid_chars THEN "_" ELSE cs[i]]

\* os.path.join of two parts.
Join(a, b) ==
    IF Len(b) > 0 /\ b[1] = "/" THEN b
    ELSE IF a = <<>> \/ a[Len(a)] = "/" THEN a \o b
    ELSE a \o <<"/">> \o b

\* The path of image file f: files 1 and 2 are .png files, the others .jpg.
ImagePath(f) ==
    <<ToString(f)>> \o (IF f <= 2 THEN <<".", "p", "n", "g">>
                                 ELSE <<".", "j", "p", "g">>)

\* dst_path = os.path.join(src_path, "sorted"), relative to src_path.
dst_path == <<"s", "o", "r", "t", "e", "d">>

\* folder_name = label.split("_")[0]
FolderName(label) == SplitFirst(Chars(label), "_")

\* folder_path = os.path.join(dst_path, folder_name + "s")
FolderPath(label) == Join(dst_path, FolderName(label) \o <<"s">>)

\* sanitized_label = sanitize_label(label[len(folder_name)+1:])
SanitizedLabel(label) ==
    sanitize_label(SubSeq(Chars(label), Len(FolderName(label)) + 2,
                          Len(Chars(label))))

\* os.path.join(folder_path, sanitized_label) + "." + image.split(".")[-1]
DestPath(image, label) ==
    Join(FolderPath(label), SanitizedLabel(label)) \o <<".">>
        \o SplitLast(ImagePath(image), ".")

\* The file system before the run: the images found, nothing sorted yet.
NewFs(images) ==
    [sources |-> {images[i] : i \in 1..Len(images)}, folders |-> {},
     files |-> {}]

\* os.makedirs(path, exist_ok=True)
MakeDirs(fsys, path) == [fsys EXCEPT !.folders = @ \cup {path}]

\* shutil.copy(image, dest): dest now holds the content of image, whatever
\* it held before.
Copy(fsys, image, dest) ==
    [fsys EXCEPT !.files = {e \in @ : e[1] # dest} \cup {<<dest, image>>}]

\* A clean-up that deletes the original whatever keep_originals says.
RemoveAlways(fsys, image, keep) == [fsys EXCEPT !.sources = @ \ {image}]

\* if not keep_originals: os.remove(image)
RemoveOriginal(fsys, image, keep) ==
    IF ~keep THEN [fsys EXCEPT !.sources = @ \ {image}] ELSE fsys

\* ---------------------------------------------------------------- actions

Init ==
    /\ image_files \in FileLists
    /\ mainpc = "prompt"
    /\ session = "none"
    /\ tasks = <<>>
    /\ labels = <<>>
    /\ organized = {}
    /\ uncaught = "none"
    /\ keep_originals = FALSE
    /\ proceed = None
    /\ fs = NewFs(image_files)

\* Any call of label_and_move_images: keep_originals is either value.
InitAnyCall ==
    /\ image_files \in FileLists
    /\ mainpc = "prompt"
    /\ session = "none"
    /\ tasks = <<>>
    /\ labels = <<>>
    /\ organized = {}
    /\ uncaught = "none"
    /\ keep_originals \in BOOLEAN
    /\ proceed = None
    /\ fs = NewFs(image_files)

\* Lines 155-158: the prompt; proceed.lower() != 'y' returns.
AnswerPrompt(answer) ==
    /\ mainpc = "prompt"
    /\ ask_to_proceed
    /\ proceed' = answer
    /\ mainpc' = IF Declines(answer) THEN "declined" ELSE "get_labels"
    /\ UNCHANGED <<image_files, keep_originals, session, tasks, labels,
                   organized, uncaught, fs>>

\* Lines 116-118: open the session, make one coroutine per file, gather them.
CallGetLabels ==
    /\ mainpc = "get_labels"
    /\ session' = "open"
    /\ tasks' = [k \in 1..Len(image_files) |-> NewTask(image_files[k])]
    /\ mainpc' = "gather"
    /\ UNCHANGED <<proceed, fs>>
    /\ UNCHANGED <<image_files, keep_originals, labels, organized, uncaught>>

\* A dispatch gated by a semaphore of one: a task sends its first request
\* only while no other request is in flight.
TaskStartCapped(t) ==
    /\ t \in Positions
    /\ tasks[t].pc = "created"
    /\ \A u \in Positions \ {t} : tasks[u].pc # "posting"
    /\ tasks' = [tasks EXCEPT ![t] = Post(@, session)]
    /\ UNCHANGED <<proceed, fs>>
    /\ UNCHANGED <<image_files, keep_originals, mainpc, session, labels, organized, uncaught>>

\* The first step of a task: encode_image, then the first post.
TaskStart(t) ==
    /\ t \in Positions
    /\ tasks[t].pc = "created"
    /\ tasks' = [tasks EXCEPT ![t] = Post(@, session)]
    /\ UNCHANGED <<proceed, fs>>
    /\ UNCHANGED <<image_files, keep_originals, mainpc, session, labels, organized, uncaught>>

\* The post of task t completes with r.  The event loop runs every task's
\* first step before it polls the network, so no outcome arrives while a
\* task is still unstarted; a closed session only breaks connections.
PostCompletes(t, r) ==
    /\ t \in Positions
    /\ tasks[t].pc = "posting"
    /\ \A u \in Positions : tasks[u].pc # "created"
    /\ session = "closed" => r.kind # "response"
    /\ LET after == HandleOutcome(tasks[t], r, session) IN
         tasks' = [tasks EXCEPT ![t] =
                      IF Ended(after)
                      THEN [after EXCEPT !.last = OutcomeName(r)]
                      ELSE after]
    /\ UNCHANGED <<proceed, fs>>
    /\ UNCHANGED <<image_files, keep_originals, mainpc, session, labels, organized, uncaught>>

\* A backoff whose delay is one variable shared by all tasks: the doubling
\* after a sleep is seen by every task.
WakeSharedDelay(t) ==
    /\ t \in Positions
    /\ tasks[t].pc = "sleeping"
    /\ tasks' = [k \in Positions |->
                    IF k = t THEN AfterSleep(tasks[k], session)
                    ELSE [tasks[k] EXCEPT !.delay = NextDelay(@)]]
    /\ UNCHANGED <<proceed, fs>>
    /\ UNCHANGED <<image_files, keep_originals, mainpc, session, labels, organized, uncaught>>

\* The backoff sleep of task t ends.
Wake(t) ==
    /\ t \in Positions
    /\ tasks[t].pc = "sleeping"
    /\ tasks' = [tasks EXCEPT ![t] = AfterSleep(@, session)]
    /\ UNCHANGED <<proceed, fs>>
    /\ UNCHANGED <<image_files, keep_originals, mainpc, session, labels, organized, uncaught>>

\* Lines 118-119 and 163-165: every child returned; leave the session
\* block, return the list, and make the sorted folder.
GatherReturn ==
    /\ mainpc = "gather"
    /\ \A t \in Positions : tasks[t].pc = "returned"
    /\ labels' = Gather(tasks)
    /\ session' = "closed"
    /\ fs' = MakeDirs(fs, dst_path)
    /\ mainpc' = "organize"
    /\ UNCHANGED <<image_files, keep_originals, tasks, organized, uncaught,
                   proceed>>

\* Line 118: gather re-raises the exception of a child as soon as one has
\* raised; the session block is left and get_labels raises.
GatherRaise(t) ==
    /\ mainpc = "gather"
    /\ t \in Positions
    /\ tasks[t].pc = "raised"
    /\ session' = "closed"
    /\ uncaught' = tasks[t].exc
    /\ mainpc' = "unwinding"
    /\ UNCHANGED <<proceed, fs>>
    /\ UNCHANGED <<image_files, keep_originals, tasks, labels, organized>>

\* Line 161: asyncio.run cancels the tasks still pending and re-raises.
CancelPending ==
    /\ mainpc = "unwinding"
    /\ tasks' = [k \in Positions |->
                    IF Ended(tasks[k]) THEN tasks[k]
                    ELSE [tasks[k] EXCEPT !.pc = "cancelled"]]
    /\ mainpc' = "crashed"
    /\ UNCHANGED <<proceed, fs>>
    /\ UNCHANGED <<image_files, keep_originals, session, labels, organized, uncaught>>

\* Lines 167-174: one iteration of the file-organization loop.  label.split
\* raises AttributeError on None; shutil.copy either copies the file or
\* raises OSError (copied = FALSE), and the original is removed after it.
OrganizeStep(copied) ==
    /\ mainpc = "organize"
    /\ LET k == Cardinality(organized) + 1 IN
         IF k > Len(labels)
         THEN /\ mainpc' = "done"
              /\ UNCHANGED <<organized, uncaught, fs>>
         ELSE IF labels[k] = None
         THEN /\ mainpc' = "crashed"
              /\ uncaught' = "AttributeError"
              /\ UNCHANGED <<organized, fs>>
         ELSE LET made == MakeDirs(fs, FolderPath(labels[k])) IN
              IF ~copied
              THEN /\ mainpc' = "crashed"
                   /\ uncaught' = "OSError"
                   /\ fs' = made
                   /\ UNCHANGED organized
              ELSE /\ fs' = RemoveOriginal(
                               Copy(made, image_files[k],
                                    DestPath(image_files[k], labels[k])),
                               image_files[k], keep_originals)
                   /\ organized' = organized \cup {k}
                   /\ UNCHANGED <<mainpc, uncaught>>
    /\ UNCHANGED <<image_files, keep_originals, session, tasks, labels,
                   proceed>>

Next ==
    \/ \E answer \in Answers : AnswerPrompt(answer)
    \/ CallGetLabels
    \/ \E t \in 1..MaxItems : TaskStart(t)
    \/ \E t \in 1..MaxItems : \E r \in Responses : PostCompletes(t, r)
    \/ \E t \in 1..MaxItems : Wake(t)
    \/ GatherReturn
    \/ \E t \in 1..MaxItems : GatherRaise(t)
    \/ CancelPending
    \/ \E copied \in BOOLEAN : OrganizeStep(copied)

Spec == Init /\ [][Next]_vars

SpecAnyCall == InitAnyCall /\ [][Next]_vars

\* ------------------------------------------------------------- vocabulary

\* The error markers label_image_async returns (lines 104 and 111).
FailedMarkers == {ErrorStatus(429), ErrorDisconnected}

\* get_labels has returned its list to label_and_move_images.
GetLabelsReturned ==
    \/ mainpc \in {"organize", "done"}
    \/ mainpc = "crashed" /\ uncaught \in {"AttributeError", "OSError"}

\* get_labels has raised instead of returning.
GetLabelsRaised ==
    \/ mainpc = "unwinding"
    \/ mainpc = "crashed" /\ uncaught \notin {"AttributeError", "OSError"}

\* Every attempt the task has made was answered by a 429 or a disconnect.
AllRetryable(task) ==
    /\ task.requests >= 1
    /\ task.nOther = 0
    /\ task.nRetryable = task.requests

\* The task ended in an error of its own: an exception, None or a marker.
ItemFailed(task) ==
    \/ task.pc = "raised"
    \/ task.pc = "returned" /\ task.result \notin Labels

\* The task has met a non-retryable failure: a status other than 200 and
\* 429, or a 200 body it could not read.
FatalSeen(task) == task.nOther >= 1 \/ task.exc = "KeyError"

RECURSIVE Pow2(_)
Pow2(n) == IF n = 0 THEN 1 ELSE 2 * Pow2(n - 1)

\* ------------------------------------------------------------------ claims

\* C1: once get_labels has returned, its list is as long as the input list
\* and its element k is the result of the task that was started for input
\* element k, whatever the order in which the tasks ran and ended.
C1_PositionalCorrespondence ==
    GetLabelsReturned =>
        /\ Len(labels) = Len(image_files)
        /\ Len(tasks) = Len(image_files)
        /\ \A k \in 1..Len(image_files) :
              /\ tasks[k].image_path = image_files[k]
              /\ tasks[k].pc = "returned"
              /\ labels[k] = tasks[k].result

\* C1 witness: get_labels returned two different outcomes for two files.
C1_Witness ==
    /\ GetLabelsReturned
    /\ Len(labels) = MaxItems
    /\ labels[1] \in Labels
    /\ labels[2] \in FailedMarkers
    /\ image_files[1] # 1

\* C2 (as claimed): when an item fails, in whichever way, then for every
\* other item get_labels still returns, the other item's task is not cut
\* short, and its outcome is at its own position of the returned list.
C2_FailureIsolated ==
    \A t \in Positions :
        ItemFailed(tasks[t]) =>
            \A u \in Positions \ {t} :
                /\ ~GetLabelsRaised
                /\ tasks[u].pc # "cancelled"
                /\ GetLabelsReturned => labels[u] = tasks[u].result

\* C3 (as claimed): a task that has met a fatal error has finished with a
\* Failed marker and has sent no request after the one that failed.
C3_FatalGivesUp ==
    \A t \in Positions :
        FatalSeen(tasks[t]) =>
            /\ tasks[t].pc = "returned"
            /\ tasks[t].result # None
            /\ tasks[t].result \notin Labels
            /\ tasks[t].requests = tasks[t].nRetryable + 1

\* C4: a task never sends more than max_retries requests; a task that
\* returned after nothing but retryable failures made exactly max_retries
\* attempts and returned an error marker; and max_retries retryable failures
\* in a row end the task with an error marker (no sleep, no further request).
C4_RetryableExhaustion ==
    \A t \in Positions :
        /\ tasks[t].requests <= max_retries
        /\ (tasks[t].pc = "returned" /\ AllRetryable(tasks[t])) =>
              /\ tasks[t].requests = max_retries
              /\ tasks[t].result \in FailedMarkers
        /\ (AllRetryable(tasks[t]) /\ tasks[t].requests = max_retries) =>
              /\ tasks[t].pc = "returned"
              /\ tasks[t].result \in FailedMarkers

\* C4 witness: one task gave up on a 429 and another on a disconnect, each
\* after max_retries retryable failures.
C4_Witness ==
    /\ \E t \in Positions :
          /\ tasks[t].pc = "returned" /\ AllRetryable(tasks[t])
          /\ tasks[t].result = ErrorStatus(429)
    /\ \E t \in Positions :
          /\ tasks[t].pc = "returned" /\ AllRetryable(tasks[t])
          /\ tasks[t].result = ErrorDisconnected

\* C5: a task that returned after k retryable failures followed by a 200
\* (k = nRetryable, no other failure) made exactly k + 1 attempts with
\* k < max_retries, and returned the content of the first message of the
\* body it read.
C5_SuccessAfterRetries ==
    \A t \in Positions :
        ( /\ tasks[t].pc = "returned"
          /\ tasks[t].nOther = 0
          /\ tasks[t].nRetryable < tasks[t].requests ) =>
            /\ tasks[t].requests = tasks[t].nRetryable + 1
            /\ tasks[t].nRetryable < max_retries
            /\ Len(tasks[t].data.choices) >= 1
            /\ tasks[t].result = tasks[t].data.choices[1]
            /\ tasks[t].result \in Labels

\* C5 witness: a label returned on the last allowed attempt, from a body of
\* two choices, and one returned on the third attempt.
C5_Witness ==
    /\ \E t \in Positions :
          /\ tasks[t].pc = "returned" /\ tasks[t].result \in Labels
          /\ tasks[t].nOther = 0
          /\ tasks[t].nRetryable = max_retries - 1
          /\ Len(tasks[t].data.choices) = 2
    /\ \E t \in Positions :
          /\ tasks[t].pc = "returned" /\ tasks[t].result \in Labels
          /\ tasks[t].nOther = 0
          /\ tasks[t].nRetryable = 2 /\ tasks[t].requests = 3

\* C6 (as claimed): no task ends with an exception, and a task that
\* returned has returned a string, never None.
C6_OutcomeIsData ==
    \A t \in Positions :
        /\ tasks[t].pc # "raised"
        /\ tasks[t].pc = "returned" => tasks[t].result # None

\* C7: the base delay of the k-th backoff sleep of a task is
\* initial_delay * 2^(k-1).
C7_BackoffDoubles ==
    \A t \in Positions :
        \A k \in 1..Len(tasks[t].sleeps) :
            tasks[t].sleeps[k] = initial_delay * Pow2(k - 1)

\* C7 witness: a task has slept max_retries - 1 times, with attempts in
\* between that failed without a sleep.
C7_Witness ==
    /\ \E t \in Positions : Len(tasks[t].sleeps) = max_retries - 1
    /\ \E t \in Positions :
          /\ Len(tasks[t].sleeps) = 2
          /\ tasks[t].nOther >= 1
          /\ tasks[t].sleeps[2] = 2

\* C8 (as claimed): while the session is closed or get_labels has returned,
\* no task is still attempting or backing off.
C8_FullBarrier ==
    (session = "closed" \/ GetLabelsReturned) =>
        \A t \in Positions :
            tasks[t].pc \notin {"created", "posting", "sleeping"}

\* C9 (as claimed): a run that started classification never stops before
\* the file-organization loop has handled every item, whatever the remote
\* end answered (a copy the file system refuses is left aside).
C9_RunCompletes ==
    (mainpc \in {"done", "crashed"} /\ uncaught # "OSError") =>
        /\ mainpc = "done"
        /\ organized = 1..Len(image_files)

\* C10: no task sends more than max_retries requests, every task that has
\* begun has sent at least one, and when the run is over every item's task
\* has begun, has sent its request and has ended.
C10_AttemptsBounded ==
    /\ \A t \in Positions :
          /\ tasks[t].requests <= max_retries
          /\ tasks[t].pc # "created" => tasks[t].requests >= 1
    /\ (GetLabelsReturned \/ GetLabelsRaised) =>
          /\ Len(tasks) = Len(image_files)
          /\ \A t \in Positions : tasks[t].requests >= 1
    /\ mainpc \in {"done", "crashed"} =>
          \A t \in Positions : Ended(tasks[t])

\* C10 witness: the run is over, one task made a single attempt and another
\* made max_retries of them.
C10_Witness ==
    /\ mainpc \in {"done", "crashed"}
    /\ \E t \in Positions : tasks[t].requests = 1
    /\ \E t \in Positions : tasks[t].requests = max_retries

\* The task gave up because its last allowed attempt failed with a
\* retryable failure.
Exhausted(task) ==
    /\ task.pc = "returned"
    /\ task.last \in {"429", "ServerDisconnectedError"}

\* C11 (as claimed): every item that gives up on exhausted retries has the
\* reason "max retries exceeded", the same after a 429 and after a
\* disconnect.
C11_SameReason ==
    \A t \in Positions :
        Exhausted(tasks[t]) =>
            /\ tasks[t].result = "max retries exceeded"
            /\ \A u \in Positions :
                  Exhausted(tasks[u]) => tasks[u].result = tasks[t].result

\* C11 (amended): an item that gives up on exhausted retries has made
\* max_retries attempts and returns "Error: 429" when its last failure was
\* a 429 response and "Error: Server disconnected" when it was a server
\* disconnect; the two reasons differ.
C11_ReasonNamesLastFailure ==
    \A t \in Positions :
        Exhausted(tasks[t]) =>
            /\ tasks[t].requests = max_retries
            /\ tasks[t].last = "429" => tasks[t].result = "Error: 429"
            /\ tasks[t].last = "ServerDisconnectedError" =>
                  tasks[t].result = "Error: Server disconnected"

\* C11 witness: two items gave up, one after a 429 and one after a
\* disconnect, and get_labels returned two different reasons.
C11_Witness ==
    /\ GetLabelsReturned
    /\ Len(labels) = MaxItems
    /\ \E t, u \in Positions :
          /\ Exhausted(tasks[t]) /\ tasks[t].last = "429"
          /\ Exhausted(tasks[u]) /\ tasks[u].last = "ServerDisconnectedError"
          /\ labels[t] # labels[u]

\* The retry state of a task: its attempt counter and its current delay.
RetryState(task) == <<task.attempt, task.delay>>

\* C12: a step in which the task of one item changes (an attempt, a
\* failure, a sleep, a doubling of the delay) leaves the attempt counter
\* and the delay of every other item's task as they were.
C12_RetryStatePerTask ==
    [][\A t \in Positions :
          tasks'[t] # tasks[t] =>
              \A u \in Positions \ {t} :
                  RetryState(tasks'[u]) = RetryState(tasks[u])]_vars

\* C12 witness: one task has backed off twice and doubled its delay twice
\* while another is still in its first attempt with the initial delay.
C12_Witness ==
    \E t, u \in Positions :
        /\ tasks[t].attempt >= 2 /\ tasks[t].delay = 4 * initial_delay
        /\ Len(tasks[t].sleeps) = 2
        /\ tasks[u].pc = "posting"
        /\ tasks[u].attempt = 0 /\ tasks[u].delay = initial_delay

\* The images find_images found.
Found == {image_files[i] : i \in 1..Len(image_files)}

\* C13: with keep_originals = True no source image is ever deleted; and a
\* source image that has been deleted was deleted with keep_originals =
\* False, after the loop copied it: a file stands at its destination path.
C13_OriginalsKept ==
    /\ keep_originals => fs.sources = Found
    /\ \A k \in 1..Len(image_files) :
          image_files[k] \notin fs.sources =>
              /\ ~keep_originals
              /\ k \in organized
              /\ \E e \in fs.files :
                    e[1] = DestPath(image_files[k], labels[k])

\* C13 witness: a run with keep_originals = True has copied every image
\* and every original is still there.
C13_Witness ==
    /\ keep_originals
    /\ mainpc = "done"
    /\ Len(image_files) = MaxItems
    /\ organized = 1..MaxItems
    /\ fs.files # {}
    /\ fs.sources = Found

\* C14: a task that has not yet sent its first request can send it at once,
\* whatever the other tasks are doing, and while it has not, no other task
\* has completed an attempt or is backing off: first attempts wait on
\* nothing.  (The state with all requests in flight is the witness.)
C14_NoConcurrencyCap ==
    \A t \in Positions :
        tasks[t].pc = "created" =>
            /\ ENABLED TaskStart(t)
            /\ \A u \in Positions :
                  /\ tasks[u].pc \in {"created", "posting"}
                  /\ tasks[u].attempt = 0

\* C14 witness: every item of a list of MaxItems has its first request in
\* flight at the same time.
C14_Witness ==
    /\ Len(tasks) = MaxItems
    /\ \A t \in Positions :
          /\ tasks[t].pc = "posting"
          /\ tasks[t].requests = 1

\* The last thing the task did was sleep: it was cancelled during a backoff
\* sleep (every attempt it made has been answered).
SleepUnanswered(task) ==
    /\ task.pc = "cancelled"
    /\ task.requests = task.nRetryable + task.nOther

\* C15 (as claimed): a task sleeps only while another attempt is left, an
\* item that gave up after n retryable failures has slept n - 1 times, and
\* no task ends on a sleep: every sleep is followed by another attempt of
\* the same item.
C15_SleepThenAttempt ==
    \A t \in Positions :
        /\ tasks[t].pc = "sleeping" => tasks[t].requests < max_retries
        /\ Len(tasks[t].sleeps) <= max_retries - 1
        /\ Exhausted(tasks[t]) =>
              Len(tasks[t].sleeps) = tasks[t].nRetryable - 1
        /\ ~SleepUnanswered(tasks[t])

\* C16 (as claimed): no image is ever lost: the content of every image
\* found is still at its source path or in a sorted file, and after the
\* loop every image's content stands at its own destination path.
C16_NoImageLost ==
    /\ \A f \in Found :
          f \in fs.sources \/ \E e \in fs.files : e[2] = f
    /\ mainpc = "done" =>
          \A k \in 1..Len(image_files) :
              <<DestPath(image_files[k], labels[k]), image_files[k]>>
                  \in fs.files

\* C17: once the user has answered the prompt with anything whose lower
\* case is not 'y', the run has ended and has done nothing: no task was
\* made and no request sent, no session opened, no folder made, no file
\* copied or deleted.
C17_DeclineNoEffect ==
    (proceed # None /\ Lower(proceed) # "y") =>
        /\ mainpc = "declined"
        /\ tasks = <<>>
        /\ session = "none"
        /\ labels = <<>>
        /\ organized = {}
        /\ fs = NewFs(image_files)
        /\ uncaught = "none"

\* C17 witness: the user answered "yes", which is not 'y', for a list of
\* MaxItems images, and the run has ended.
C17_Witness ==
    /\ proceed = "yes"
    /\ mainpc = "declined"
    /\ Len(image_files) = MaxItems
    /\ fs.sources = Found

====
